---- MODULE Spec2Model ----
(***************************************************************************)
(* Payment order lifecycle of the KKPay merchant integration:              *)
(*   shared_data.py     the in-memory stores user_accounts, pending_orders *)
(*   main.py            the bot handlers that create deposit (topup) and   *)
(*                      withdrawal orders                                  *)
(*   webhook_server.py  the callback endpoint that settles orders          *)
(*   kkpay_api.py       the signature of outbound requests                 *)
(*                                                                         *)
(* The stores are the module-level dictionaries of shared_data.py, which   *)
(* its docstring calls "shared data storage for main bot and webhook       *)
(* server"; bot handlers and webhook handlers are coroutines on an event   *)
(* loop and interleave only at their await points.  One action is the code *)
(* a coroutine runs between two awaits that give control away.  Amounts    *)
(* are integers (the code uses floats of the same values).                 *)
(***************************************************************************)
EXTENDS Integers, Sequences, FiniteSets, TLC

\* ---------------------------------------------------------------- bounds
MaxInputs == 3        \* conversations and callback requests of one run

Users == {1, 2}       \* Telegram user ids
TopupAmounts == {0, 1}      \* the amounts a user types for a deposit
WithdrawAmounts == {0, 1, 2}   \* the amounts a user types for a withdrawal
Tasks == {1, 2}       \* order-creation conversations, one order id each
OrderIds == Tasks
Requests == {1, 2}    \* callback requests the webhook receives

\* ------------------------------------------------------- configuration
\* the id of another merchant
OtherMerchantId == "other_merchant"

KKPAY_MERCHANT_ID == "demo_merchant_123"
KKPAY_SECRET == "demo_secret_key_456"

VARIABLES
    user_accounts,    \* shared_data.user_accounts: user id -> account
    pending_orders,   \* shared_data.pending_orders: order id -> order
    tasks,            \* the bot's order-creation coroutines
    webhooks,         \* the webhook server's request coroutines
    response,         \* the HTTP response returned by the last step, if any
    effects           \* per order: what the callbacks that found it did

vars == <<user_accounts, pending_orders, tasks, webhooks, response, effects>>

\* ------------------------------------------------------------ JSON values
\* A value of a JSON payload field: a number, a string that is not a
\* number, null, or the field is absent.
JNum(n) == [t |-> "num", v |-> n]
JBad == [t |-> "str", v |-> 0]
JNull == [t |-> "null", v |-> 0]
JAbsent == [t |-> "absent", v |-> 0]

\* callback_data.get(field, default)
DictGet(j, default) == IF j.t = "absent" THEN default ELSE j

\* float(x): raises ValueError on a non-numeric string, TypeError on None
FloatOf(j) ==
    IF j.t = "num" THEN [ok |-> TRUE, val |-> j.v]
    ELSE [ok |-> FALSE, val |-> 0]

\* ------------------------------------------------------------- signatures
None == [none |-> TRUE]

\* no HTTP response was returned by the last step
NoResponse ==
    [status |-> 0, message |-> "", handler |-> "none", user_order |-> 0,
     log |-> ""]

\* hashlib.sha256(message).digest(), a collision-free digest of (data, secret)
Sha256(data, secret) == [sha256_of |-> data, secret |-> secret]

\* base64.b64encode(...).decode('utf-8'), injective
B64Encode(x) == [b64_of |-> x]

\* ---------------------------------------------------------- shared_data.py
\* an account lookup that starts the account afresh on every call
get_user_account_afresh(accounts, user_id) ==
    [u \in DOMAIN accounts \cup {user_id} |->
        IF u = user_id THEN [balance |-> 0, transactions |-> <<>>]
        ELSE accounts[u]]

\* user_accounts after get_user_account(user_id)
get_user_account(accounts, user_id) ==
    IF user_id \notin DOMAIN accounts
    THEN [u \in DOMAIN accounts \cup {user_id} |->
            IF u = user_id THEN [balance |-> 0, transactions |-> <<>>]
            ELSE accounts[u]]
    ELSE accounts

Transaction(tx_type, amount, status, order_id) ==
    [type |-> tx_type, amount |-> amount, status |-> status,
     order_id |-> order_id]

\* user_accounts after add_transaction(user_id, ...)
add_transaction(accounts, user_id, tx_type, amount, status, order_id) ==
    LET acc == get_user_account(accounts, user_id)
    IN  [acc EXCEPT ![user_id].transactions =
            Append(@, Transaction(tx_type, amount, status, order_id))]

\* pending_orders after add_pending_order(order_id, order_data)
add_pending_order(orders, order_id, order_data) ==
    [o \in DOMAIN orders \cup {order_id} |->
        IF o = order_id THEN order_data ELSE orders[o]]

\* a lookup that answers with a default order for a key that is absent
get_pending_order_default(orders, order_id) ==
    IF order_id \in DOMAIN orders THEN orders[order_id]
    ELSE [user_id |-> 1, amount |-> 1, type |-> "topup", txid |-> ""]

\* pending_orders.get(order_id): None when the key is absent
get_pending_order(orders, order_id) ==
    IF order_id \in DOMAIN orders THEN orders[order_id] ELSE None

\* pending_orders after remove_pending_order(order_id)
remove_pending_order(orders, order_id) ==
    [o \in DOMAIN orders \ {order_id} |-> orders[o]]

\* a balance update that is applied to every account
update_user_balance_everyone(accounts, user_id, amount) ==
    LET acc == get_user_account(accounts, user_id)
    IN  [u \in DOMAIN acc |-> [acc[u] EXCEPT !.balance = @ + amount]]

\* user_accounts after update_user_balance(user_id, amount)
update_user_balance(accounts, user_id, amount) ==
    LET acc == get_user_account(accounts, user_id)
    IN  [acc EXCEPT ![user_id].balance = @ + amount]

\* index of the first transaction of the log with this order id, 0 if none
FirstTx(txs, order_id) ==
    IF \E i \in 1..Len(txs) : txs[i].order_id = order_id
    THEN CHOOSE i \in 1..Len(txs) :
            /\ txs[i].order_id = order_id
            /\ \A j \in 1..(i - 1) : txs[j].order_id # order_id
    ELSE 0

\* a status update that takes the transaction out of the log
update_transaction_status_dropping(accounts, user_id, order_id, status) ==
    LET acc == get_user_account(accounts, user_id)
    IN  [acc EXCEPT ![user_id].transactions =
            SelectSeq(@, LAMBDA tx : tx.order_id # order_id)]

\* a status update that records the new status as one more transaction
update_transaction_status_appending(accounts, user_id, order_id, status) ==
    add_transaction(accounts, user_id, "topup", 0, status, order_id)

\* user_accounts after update_transaction_status(user_id, order_id, status)
update_transaction_status(accounts, user_id, order_id, status) ==
    LET acc == get_user_account(accounts, user_id)
        i == FirstTx(acc[user_id].transactions, order_id)
    IN  IF i = 0 THEN acc
        ELSE [acc EXCEPT ![user_id].transactions[i].status = status]

\* ---------------------------------------------------------------- main.py
\* A conversation that has not reached a handler yet
IdleTask ==
    [pc |-> "idle", kind |-> "none", user_id |-> 0, amount |-> 0, code |-> 0,
     debit_from |-> 0, inflight |-> {}]

\* the conversations and callback requests that have started
Inputs ==
    Cardinality({t \in Tasks : tasks[t].pc # "idle"})
    + Cardinality({c \in Requests : webhooks[c].pc # "idle"})

\* Conversations start in the order of their numbers (they are
\* interchangeable); conversation t draws the order id t from uuid4.
CanStart(t) ==
    /\ tasks[t].pc = "idle"
    /\ \A s \in Tasks : s < t => tasks[s].pc # "idle"
    /\ Inputs < MaxInputs

\* User ids are interchangeable: a user who has not been seen yet is the
\* one with the least unused id.
SeenUsers ==
    DOMAIN user_accounts \cup {tasks[t].user_id : t \in Tasks}

CanAct(user_id) ==
    \A v \in Users : v < user_id => v \in SeenUsers

\* Gateway response codes: 1000 is acceptance, 9999 is what make_request
\* returns for a network failure or an unreadable response.
GatewayCodes == {1000, 9999}

TopupOrder(user_id, amount) ==
    [user_id |-> user_id, amount |-> amount, type |-> "topup", txid |-> ""]

WithdrawOrder(user_id, amount) ==
    [user_id |-> user_id, recipient_id |-> 7, amount |-> amount,
     type |-> "withdraw", txid |-> ""]

\* order['txid'] = txid, when the order is still in the store
SetTxid(orders, order_id) ==
    IF order_id \in DOMAIN orders
    THEN [orders EXCEPT ![order_id].txid = "T"]
    ELSE orders

\* process_topup_amount up to `await kkpay.create_payment_link`
process_topup_amount(t, user_id, amount) ==
    /\ CanStart(t)
    /\ CanAct(user_id)
    /\ IF amount < 1
       THEN UNCHANGED vars
       ELSE /\ pending_orders' =
                  add_pending_order(pending_orders, t,
                                    TopupOrder(user_id, amount))
            /\ tasks' = [tasks EXCEPT ![t] =
                  [@ EXCEPT !.pc = "gateway", !.kind = "topup",
                            !.user_id = user_id, !.amount = amount]]
            /\ response' = NoResponse
            /\ UNCHANGED <<user_accounts, webhooks, effects>>

\* process_topup_amount from the gateway's response to its end
topup_gateway_response(t, code) ==
    /\ tasks[t].pc = "gateway"
    /\ tasks[t].kind = "topup"
    /\ tasks' = [tasks EXCEPT ![t] = [@ EXCEPT !.pc = "done", !.code = code]]
    /\ IF code = 1000
       THEN /\ pending_orders' = SetTxid(pending_orders, t)
            /\ user_accounts' =
                  add_transaction(user_accounts, tasks[t].user_id, "topup",
                                  tasks[t].amount, "pending", t)
       ELSE UNCHANGED <<pending_orders, user_accounts>>
    /\ response' = NoResponse
    /\ UNCHANGED <<webhooks, effects>>

\* process_withdraw_amount: the amount is kept in the conversation's FSM
\* data and the conversation waits for the recipient id
process_withdraw_amount(t, user_id, amount) ==
    /\ CanStart(t)
    /\ CanAct(user_id)
    /\ IF amount < 1
       THEN UNCHANGED vars
       ELSE LET accounts == get_user_account(user_accounts, user_id)
            IN  /\ user_accounts' = accounts
                /\ IF amount > accounts[user_id].balance
                   THEN UNCHANGED tasks
                   ELSE tasks' = [tasks EXCEPT ![t] =
                          [@ EXCEPT !.pc = "recipient", !.kind = "withdraw",
                                    !.user_id = user_id, !.amount = amount]]
                /\ response' = NoResponse
                /\ UNCHANGED <<pending_orders, webhooks, effects>>

\* process_recipient_id up to `await kkpay.create_withdraw_order`;
\* is_exist is the answer of kkpay.check_user_exists
process_recipient_id(t, is_exist) ==
    /\ tasks[t].pc = "recipient"
    /\ IF ~is_exist
       THEN UNCHANGED vars
       ELSE /\ pending_orders' =
                  add_pending_order(pending_orders, t,
                      WithdrawOrder(tasks[t].user_id, tasks[t].amount))
            /\ tasks' = [tasks EXCEPT ![t].pc = "gateway"]
            /\ response' = NoResponse
            /\ UNCHANGED <<user_accounts, webhooks, effects>>

\* the other withdrawal conversations of the user that have passed the
\* balance check and have not finished
InFlightWithdrawals(t) ==
    {s \in Tasks \ {t} :
        /\ tasks[s].kind = "withdraw"
        /\ tasks[s].user_id = tasks[t].user_id
        /\ tasks[s].pc \in {"recipient", "gateway"}}

\* account['balance'] -= amount, on the account get_user_account returned
DeductBalance(accounts, user_id, amount) ==
    [accounts EXCEPT ![user_id].balance = @ - amount]

\* process_recipient_id from the gateway's response to its end
withdraw_gateway_response(t, code) ==
    /\ tasks[t].pc = "gateway"
    /\ tasks[t].kind = "withdraw"
    /\ IF code = 1000
       THEN LET user_id == tasks[t].user_id
                account == get_user_account(user_accounts, user_id)
                deducted == DeductBalance(account, user_id, tasks[t].amount)
            IN  /\ pending_orders' = SetTxid(pending_orders, t)
                /\ user_accounts' =
                      add_transaction(deducted, user_id, "withdraw",
                                      0 - tasks[t].amount, "pending", t)
                /\ tasks' = [tasks EXCEPT ![t] =
                      [@ EXCEPT !.pc = "done", !.code = code,
                                !.debit_from = account[user_id].balance,
                                !.inflight = InFlightWithdrawals(t)]]
       ELSE /\ tasks' = [tasks EXCEPT ![t] =
                  [@ EXCEPT !.pc = "done", !.code = code]]
            /\ UNCHANGED <<pending_orders, user_accounts>>
    /\ response' = NoResponse
    /\ UNCHANGED <<webhooks, effects>>

\* start_command, show_main_menu, start_withdraw, show_account: handlers
\* that only read the account, which creates it on first use
start_command(user_id) ==
    /\ CanAct(user_id)
    /\ user_accounts' = get_user_account(user_accounts, user_id)
    /\ response' = NoResponse
    /\ UNCHANGED <<pending_orders, tasks, webhooks, effects>>

\* ------------------------------------------------------ kkpay_api.py
\* KKPayAPI.generate_sign with the secret the signer holds
generate_sign(data, secret) == B64Encode(Sha256(data, secret))

\* ------------------------------------------------------ webhook_server.py
\* a verification that compares the digest without the secret
verify_signature_unkeyed(data, received_signature) ==
    /\ received_signature # None
    /\ received_signature.b64_of.sha256_of = data

\* a verification that accepts every signature that is present
verify_signature_present(data, received_signature) ==
    received_signature # None

\* verify_signature(data, received_signature); nothing in it raises for
\* a str body, so the except branch is never taken
verify_signature(data, received_signature) ==
    B64Encode(Sha256(data, KKPAY_SECRET)) = received_signature

\* Callback payloads (the decoded JSON object).  orderStatus "absent"
\* stands for a payload without that key.
Payload(bt, order_id, amount, status) ==
    [businessType |-> bt, userOrder |-> order_id, amount |-> amount,
     orderStatus |-> status]

\* amounts a callback may carry: negative, zero (absent), the amount of an
\* order, a larger one, and a string that is not a number
CallbackAmounts == {JNum(0 - 1), JAbsent, JBad, JNum(1), JNum(2)}

\* Fields a handler reads without using their value take one
\* representative value (the amount of a callback that is not a deposit
\* success is only parsed).
Payloads ==
    {Payload("deposit", o, a, "success") :
        o \in OrderIds, a \in CallbackAmounts}
    \cup {Payload("deposit", o, JNum(1), st) :
        o \in OrderIds, st \in {"fail", "absent"}}
    \cup {Payload("withdraw", o, JNum(1), st) :
        o \in OrderIds, st \in {"success", "fail", "processing", "absent"}}
    \cup {Payload("withdraw", o, JBad, "fail") : o \in OrderIds}
    \cup {Payload("withdrawalPendingConfirm", 1, a, "absent") :
        a \in {JNum(1), JBad}}
    \cup {Payload("refund", 1, JNum(1), "absent")}

\* Request bodies: the base64 text of a JSON object, of a JSON value that
\* is not an object, of text that is not JSON, and text that is not base64
Body(form, data) == [form |-> form, data |-> data]

Bodies ==
    {Body("b64json", p) : p \in Payloads}
    \cup {Body("b64list", None), Body("b64text", None), Body("raw", None)}

\* base64.b64decode(body).decode('utf-8') followed by json.loads
DecodeBody(body) ==
    IF body.form \in {"b64json", "b64list"}
    THEN [ok |-> TRUE, dict |-> body.form = "b64json", data |-> body.data]
    ELSE [ok |-> FALSE, dict |-> FALSE, data |-> None]

\* The requests the endpoint may receive.  A request that fails a check
\* is represented once per check.
GoodBody == Body("b64json", Payload("deposit", 1, JNum(1), "success"))
RawBody == Body("raw", None)

Request(merchant_id, signature, body) ==
    [merchant_id |-> merchant_id, signature |-> signature, body |-> body]

\* signatures that are not the signature of body b: made with another
\* secret, made for another body, and no KKPAY-SIGN header at all
BadSignatures(b) ==
    {generate_sign(b, "other_secret"), None}
    \cup {generate_sign(d, KKPAY_SECRET) : d \in {GoodBody, RawBody} \ {b}}

\* "None" is the KKPAY-ID of a request without that header
Incoming ==
    {Request(KKPAY_MERCHANT_ID, generate_sign(b, KKPAY_SECRET), b) :
        b \in Bodies}
    \cup {Request(m, generate_sign(GoodBody, KKPAY_SECRET), GoodBody) :
            m \in {"other_merchant", "None"}}
    \cup UNION {{Request(m, sig, b) :
                    m \in {KKPAY_MERCHANT_ID, "other_merchant"},
                    sig \in BadSignatures(b)} :
                b \in {GoodBody, RawBody}}

IdleRequest == [pc |-> "idle", handler |-> "none", user_order |-> 0]

\* callback_data.get('orderStatus', default)
GetStatus(callback_data, default) ==
    IF callback_data.orderStatus = "absent" THEN default
    ELSE callback_data.orderStatus

\* the callbacks that found order order_id pending: the handler that ran,
\* the outcome it read and the change it made to the owner's balance
LogEffect(order_id, handler, order_status, delta) ==
    [effects EXCEPT ![order_id] =
        Append(@, [handler |-> handler, status |-> order_status,
                   delta |-> delta])]

\* What a run of the request handler up to its next await leaves behind:
\* the stores, where the coroutine stands (pc "notify": inside `await
\* send_telegram_message`; "done": answered), the HTTP status and message
\* of the answer, whether the body was decoded, the callback handler that
\* was dispatched with the order id it read, and the line it logged.
Outcome(acc, ord, eff, pc, status, message, decoded, handler, user_order, log) ==
    [user_accounts |-> acc, pending_orders |-> ord, effects |-> eff,
     pc |-> pc, status |-> status, message |-> message, decoded |-> decoded,
     handler |-> handler, user_order |-> user_order, log |-> log]

\* an answer that leaves the stores as they are
Answer(status, message, decoded, handler, user_order, log) ==
    Outcome(user_accounts, pending_orders, effects, "done", status, message,
            decoded, handler, user_order, log)

\* handle_deposit_callback up to `await send_telegram_message`, or to its
\* end when it does not send a message
handle_deposit_callback(callback_data) ==
    LET user_order == callback_data.userOrder
        amount == FloatOf(DictGet(callback_data.amount, JNum(0)))
        order_status == GetStatus(callback_data, "success")
        order == get_pending_order(pending_orders, user_order)
    IN  IF ~amount.ok
        THEN Answer(500, "ValueError", TRUE, "deposit", user_order, "")
        ELSE IF order = None
        THEN Answer(200, "success", TRUE, "deposit", user_order,
                    "unknown order")
        ELSE LET user_id == order.user_id
                 account == get_user_account(user_accounts, user_id)
             IN  IF order_status = "success"
                 THEN Outcome(
                        update_transaction_status(
                            update_user_balance(account, user_id, amount.val),
                            user_id, user_order, "success"),
                        pending_orders,
                        LogEffect(user_order, "deposit", "success",
                                  amount.val),
                        "notify", 0, "", TRUE, "deposit", user_order, "")
                 ELSE Outcome(
                        account,
                        remove_pending_order(pending_orders, user_order),
                        LogEffect(user_order, "deposit", order_status, 0),
                        "done", 200, "success", TRUE, "deposit", user_order,
                        "processed")

\* a handler that drops the order it names before it fails
handle_withdraw_callback_dropping(callback_data) ==
    Outcome(user_accounts,
            remove_pending_order(pending_orders, callback_data.userOrder),
            effects, "done", 500, "KeyError", TRUE, "withdraw",
            callback_data.userOrder, "")

\* handle_withdraw_callback up to `await send_telegram_message`; building
\* the success message reads order['recipient_id'], a key only withdrawal
\* orders have
handle_withdraw_callback(callback_data) ==
    LET user_order == callback_data.userOrder
        order_status == GetStatus(callback_data, "None")
        amount == FloatOf(DictGet(callback_data.amount, JNum(0)))
        order == get_pending_order(pending_orders, user_order)
    IN  IF ~amount.ok
        THEN Answer(500, "ValueError", TRUE, "withdraw", user_order, "")
        ELSE IF order = None
        THEN Answer(200, "success", TRUE, "withdraw", user_order,
                    "unknown order")
        ELSE LET user_id == order.user_id
                 account == get_user_account(user_accounts, user_id)
                 updated == update_transaction_status(account, user_id,
                                                      user_order, order_status)
             IN  IF order_status = "fail"
                 THEN Outcome(
                        update_user_balance(updated, user_id, order.amount),
                        pending_orders,
                        LogEffect(user_order, "withdraw", "fail",
                                  order.amount),
                        "notify", 0, "", TRUE, "withdraw", user_order, "")
                 ELSE IF "recipient_id" \in DOMAIN order
                 THEN Outcome(
                        updated, pending_orders,
                        LogEffect(user_order, "withdraw", order_status, 0),
                        "notify", 0, "", TRUE, "withdraw", user_order, "")
                 ELSE Outcome(
                        updated, pending_orders,
                        LogEffect(user_order, "withdraw", order_status, 0),
                        "done", 500, "KeyError", TRUE, "withdraw", user_order,
                        "")

\* a confirmation handler that settles the order it names
handle_withdraw_confirm_settling(callback_data) ==
    handle_withdraw_callback(callback_data)

\* handle_withdraw_confirm_callback: logs only
handle_withdraw_confirm_callback(callback_data) ==
    LET amount == FloatOf(DictGet(callback_data.amount, JNum(0)))
    IN  IF amount.ok
        THEN Answer(200, "success", TRUE, "confirm", callback_data.userOrder,
                    "auto-approving")
        ELSE Answer(500, "ValueError", TRUE, "confirm",
                    callback_data.userOrder, "")

\* kkpay_webhook_handler from the arrival of request req to the first
\* await of a callback handler that gives control away, or to its answer.
\* (`await request.text()` comes before any access to the stores.)
kkpay_webhook_handler(req) ==
    IF req.merchant_id # KKPAY_MERCHANT_ID
    THEN Answer(401, "Invalid merchant ID", FALSE, "none", 0, "")
    ELSE IF ~verify_signature(req.body, req.signature)
    THEN Answer(401, "Invalid signature", FALSE, "none", 0, "")
    ELSE LET decoded == DecodeBody(req.body)
             callback_data == decoded.data
         IN  IF ~decoded.ok
             THEN Answer(400, "Invalid data format", TRUE, "none", 0, "")
             ELSE IF ~decoded.dict
             THEN Answer(500, "AttributeError", TRUE, "none", 0, "")
             ELSE IF callback_data.businessType = "deposit"
             THEN handle_deposit_callback(callback_data)
             ELSE IF callback_data.businessType = "withdraw"
             THEN handle_withdraw_callback(callback_data)
             ELSE IF callback_data.businessType = "withdrawalPendingConfirm"
             THEN handle_withdraw_confirm_callback(callback_data)
             ELSE Answer(200, "success", TRUE, "none", 0,
                         "unknown business type")

\* web.json_response(...) of an outcome that is an answer
Response(out) ==
    IF out.pc = "done"
    THEN [status |-> out.status, message |-> out.message,
          handler |-> out.handler, user_order |-> out.user_order,
          log |-> out.log]
    ELSE NoResponse

\* Request c arrives and runs to its first await or to its answer.
\* Requests are numbered in the order of their arrival.
webhook_request(c, req) ==
    /\ webhooks[c].pc = "idle"
    /\ \A d \in Requests : d < c => webhooks[d].pc # "idle"
    /\ Inputs < MaxInputs
    /\ LET out == kkpay_webhook_handler(req)
       IN  /\ user_accounts' = out.user_accounts
           /\ pending_orders' = out.pending_orders
           /\ effects' = out.effects
           /\ webhooks' = [webhooks EXCEPT ![c] =
                 IF out.pc = "done"
                 THEN [pc |-> "done", handler |-> "none", user_order |-> 0]
                 ELSE [pc |-> "notify", handler |-> out.handler,
                       user_order |-> out.user_order]]
           /\ response' = Response(out)
    /\ UNCHANGED tasks

\* the rest of handle_deposit_callback / handle_withdraw_callback after
\* send_telegram_message returned (it catches every exception itself), and
\* the answer of kkpay_webhook_handler
notify_return(c) ==
    /\ webhooks[c].pc = "notify"
    /\ pending_orders' =
          remove_pending_order(pending_orders, webhooks[c].user_order)
    /\ webhooks' = [webhooks EXCEPT ![c] =
          [pc |-> "done", handler |-> "none", user_order |-> 0]]
    /\ response' = [status |-> 200, message |-> "success",
                    handler |-> webhooks[c].handler,
                    user_order |-> webhooks[c].user_order,
                    log |-> "processed"]
    /\ UNCHANGED <<user_accounts, tasks, effects>>

\* ---------------------------------------------------------- specification
Init ==
    /\ user_accounts = <<>>
    /\ pending_orders = <<>>
    /\ tasks = [t \in Tasks |-> IdleTask]
    /\ webhooks = [c \in Requests |-> IdleRequest]
    /\ response = NoResponse
    /\ effects = [o \in OrderIds |-> <<>>]

Next ==
    \/ \E u \in Users : start_command(u)
    \/ \E t \in Tasks, u \in Users, a \in TopupAmounts :
          process_topup_amount(t, u, a)
    \/ \E t \in Tasks, code \in GatewayCodes : topup_gateway_response(t, code)
    \/ \E t \in Tasks, u \in Users, a \in WithdrawAmounts :
          process_withdraw_amount(t, u, a)
    \/ \E t \in Tasks, is_exist \in BOOLEAN : process_recipient_id(t, is_exist)
    \/ \E t \in Tasks, code \in GatewayCodes :
          withdraw_gateway_response(t, code)
    \/ \E c \in Requests, req \in Incoming : webhook_request(c, req)
    \/ \E c \in Requests : notify_return(c)

Spec == Init /\ [][Next]_vars

\* A state the program is in after user 1 has paid a deposit of 2 (order 0:
\* created, accepted, settled with outcome success and removed): the
\* starting point of the withdrawal scenarios.
FundedAccount ==
    [balance |-> 2, transactions |-> <<Transaction("topup", 2, "success", 0)>>]

InitFunded ==
    /\ user_accounts = [u \in {1} |-> FundedAccount]
    /\ pending_orders = <<>>
    /\ tasks = [t \in Tasks |-> IdleTask]
    /\ webhooks = [c \in Requests |-> IdleRequest]
    /\ response = NoResponse
    /\ effects = [o \in OrderIds |-> <<>>]

SpecFunded == InitFunded /\ [][Next]_vars

\* ------------------------------------------------------------ accounting
RECURSIVE SumDelta(_)
SumDelta(log) ==
    IF log = <<>> THEN 0 ELSE Head(log).delta + SumDelta(Tail(log))

RECURSIVE SumAmounts(_)
SumAmounts(txs) ==
    IF txs = <<>> THEN 0 ELSE Head(txs).amount + SumAmounts(Tail(txs))

\* the owner of order o is the user of the conversation that created it
Owner(o) == tasks[o].user_id

AcceptedWithdrawal(o) ==
    tasks[o].kind = "withdraw" /\ tasks[o].pc = "done" /\ tasks[o].code = 1000

AcceptedTopup(o) ==
    tasks[o].kind = "topup" /\ tasks[o].pc = "done" /\ tasks[o].code = 1000

Rejected(o) == tasks[o].pc = "done" /\ tasks[o].code # 1000

\* what order o has added to its owner's balance so far: the changes the
\* callbacks made, less the debit of its creation
NetOf(o) ==
    SumDelta(effects[o])
    - (IF AcceptedWithdrawal(o) THEN tasks[o].amount ELSE 0)

RECURSIVE SumNet(_, _)
SumNet(orders, u) ==
    IF orders = {} THEN 0
    ELSE LET o == CHOOSE x \in orders : TRUE
         IN  (IF Owner(o) = u THEN NetOf(o) ELSE 0) + SumNet(orders \ {o}, u)

Balance(u) == IF u \in DOMAIN user_accounts THEN user_accounts[u].balance ELSE 0

\* the transactions of orders settled before the run (order id 0)
Settled0(u) ==
    IF u \in DOMAIN user_accounts
    THEN SelectSeq(user_accounts[u].transactions, LAMBDA tx : tx.order_id = 0)
    ELSE <<>>

\* Every balance is the balance the run started with plus what each order
\* of the user has added to it: effects and the conversations' records
\* account for every change of a balance.
BalanceAccounted ==
    \A u \in Users : Balance(u) = SumAmounts(Settled0(u)) + SumNet(OrderIds, u)

\* ------------------------------------------------------------------ claims
\* every callback that found order o pending ran this handler, read this
\* outcome and changed the balance by delta
AllEffects(o, handler, order_status, delta) ==
    \A i \in 1..Len(effects[o]) :
        effects[o][i] =
            [handler |-> handler, status |-> order_status, delta |-> delta]

\* C1: a deposit order the gateway accepted, for which the success callback
\* carrying the order's amount was handled once or several times, has
\* added exactly its amount to the owner's balance (the balance is what it
\* would be without the order, plus the amount).
C1_DepositCreditedOnce ==
    \A o \in OrderIds :
        ( /\ AcceptedTopup(o)
          /\ effects[o] # <<>>
          /\ AllEffects(o, "deposit", "success", tasks[o].amount) )
        => Balance(Owner(o)) =
              (Balance(Owner(o)) - NetOf(o)) + tasks[o].amount

\* the step is the debit of withdrawal conversation o
DebitStep(o) ==
    /\ tasks[o].kind = "withdraw"
    /\ tasks[o].pc = "gateway"
    /\ tasks'[o].pc = "done"
    /\ tasks'[o].code = 1000

\* C2: the creation of a withdrawal takes exactly the amount from the
\* owner's balance, and once handle_withdraw_callback has handled fail
\* callbacks (one or several) for the withdrawal, the order has given back
\* exactly what it took: the balance is its value before the withdrawal.
C2_ReserveAndRefund ==
    [][\A o \in OrderIds :
        /\ DebitStep(o) =>
              user_accounts'[Owner(o)].balance =
                  Balance(Owner(o)) - tasks[o].amount
        /\ ( /\ AcceptedWithdrawal(o)'
             /\ effects'[o] # <<>>
             /\ \A i \in 1..Len(effects'[o]) :
                   /\ effects'[o][i].handler = "withdraw"
                   /\ effects'[o][i].status = "fail" )
           => NetOf(o)' = 0]_vars

\* C3: of two withdrawals of one user that were in flight together (the
\* second had passed the balance check when the first was debited) and
\* were both created, the amounts do not add up to more than the balance
\* the first debit was taken from.
C3_NoOverWithdrawal ==
    \A t1 \in Tasks : \A t2 \in Tasks :
        ( /\ AcceptedWithdrawal(t1)
          /\ AcceptedWithdrawal(t2)
          /\ t2 \in tasks[t1].inflight )
        => tasks[t1].amount + tasks[t2].amount <= tasks[t1].debit_from

\* C4: a callback that finds an order pending which an earlier callback
\* has already settled or failed changes no balance, no transaction and
\* no order record.
C4_TerminalOrdersStay ==
    [][\A o \in OrderIds :
        (effects[o] # <<>> /\ effects'[o] # effects[o])
        => /\ user_accounts' = user_accounts
           /\ pending_orders' = pending_orders]_vars

\* C5: no account has a negative balance.
C5_BalanceNonNegative ==
    \A u \in DOMAIN user_accounts : user_accounts[u].balance >= 0

\* C6: an order the gateway did not accept has had, and gets, no effect
\* on a balance.
C6_RejectionIsTerminal ==
    \A o \in OrderIds :
        Rejected(o) => \A i \in 1..Len(effects[o]) : effects[o][i].delta = 0

\* the pending transaction of order o in the log of its owner
HasPendingTx(o, amount) ==
    /\ Owner(o) \in DOMAIN user_accounts
    /\ \E i \in 1..Len(user_accounts[Owner(o)].transactions) :
          LET tx == user_accounts[Owner(o)].transactions[i]
          IN  tx.order_id = o /\ tx.status = "pending" /\ tx.amount = amount

\* C7: while the gateway call of a withdrawal is outstanding, the pending
\* debit transaction of the order is in the owner's log (the reservation
\* has been made).
C7_ReservationBeforeGateway ==
    \A o \in OrderIds :
        (tasks[o].kind = "withdraw" /\ tasks[o].pc = "gateway")
        => HasPendingTx(o, 0 - tasks[o].amount)

\* the step is the acceptance of deposit conversation o
TopupAcceptStep(o) ==
    /\ tasks[o].kind = "topup"
    /\ tasks[o].pc = "gateway"
    /\ tasks'[o].pc = "done"
    /\ tasks'[o].code = 1000

\* C8: the creation of a deposit appends one pending transaction of
\* +amount for the order and leaves the balance as it is, and a callback
\* changes the balance on behalf of a deposit order only when it is
\* handled as a success settlement.
C8_DepositNotSpeculative ==
    [][\A o \in OrderIds :
        /\ TopupAcceptStep(o) =>
              /\ user_accounts'[Owner(o)].transactions =
                    Append(
                      get_user_account(user_accounts, Owner(o))[Owner(o)]
                          .transactions,
                      Transaction("topup", tasks[o].amount, "pending", o))
              /\ user_accounts'[Owner(o)].balance = Balance(Owner(o))
        /\ (tasks[o].kind = "topup" /\ effects'[o] # effects[o])
           => LET last == effects'[o][Len(effects'[o])]
              IN  last.delta # 0 => last.status = "success"]_vars

\* the request carries the configured merchant id and the signature of
\* its body
Authenticated(req) ==
    /\ req.merchant_id = KKPAY_MERCHANT_ID
    /\ req.signature = generate_sign(req.body, KKPAY_SECRET)

\* the request is a well-formed deposit or withdraw callback
SettlementCallback(req) ==
    /\ req.body.form = "b64json"
    /\ req.body.data.businessType \in {"deposit", "withdraw"}
    /\ req.body.data.amount.t \in {"num", "absent"}

\* the requests each claim below speaks about
SettlementCallbacks == {req \in Incoming : Authenticated(req) /\ SettlementCallback(req)}

MismatchedRequests == {req \in Incoming : req.signature # generate_sign(req.body, KKPAY_SECRET)}

SameStores(out) ==
    /\ out.user_accounts = user_accounts
    /\ out.pending_orders = pending_orders
    /\ out.effects = effects

\* C9: in every state, an authenticated well-formed deposit or withdraw
\* callback for an order id that is not in the order store is answered
\* 200 {status: success} and leaves orders, balances and transactions as
\* they are.
C9_UnknownOrderCallback ==
    \A req \in SettlementCallbacks :
        req.body.data.userOrder \notin DOMAIN pending_orders
        => LET out == kkpay_webhook_handler(req)
           IN  /\ out.pc = "done"
               /\ out.status = 200
               /\ out.message = "success"
               /\ SameStores(out)

C9_Witness ==
    /\ response.status = 200
    /\ response.handler \in {"deposit", "withdraw"}
    /\ response.log = "unknown order"
    /\ response.user_order \notin DOMAIN pending_orders

\* C10: in every state, a request whose signature is not the signature of
\* its body (or is missing) is answered 401 without decoding the body and
\* without dispatching a handler, and leaves orders, balances and
\* transactions as they are.
C10_SignatureMismatch ==
    \A req \in MismatchedRequests :
        req.signature # generate_sign(req.body, KKPAY_SECRET)
        => LET out == kkpay_webhook_handler(req)
           IN  /\ out.pc = "done"
               /\ out.status = 401
               /\ ~out.decoded
               /\ out.handler = "none"
               /\ SameStores(out)

C10_Witness ==
    /\ response.status = 401
    /\ response.message = "Invalid signature"
    /\ \E c \in Requests : webhooks[c].pc = "done"

\* requests whose KKPAY-ID header is another merchant's or is missing, with
\* the signature of their body, with a wrong signature and with none
ForeignRequests ==
    UNION {{Request(m, sig, b) :
                m \in {"other_merchant", "None"},
                sig \in {generate_sign(b, KKPAY_SECRET)} \cup BadSignatures(b)} :
            b \in {GoodBody, RawBody}}

\* C11: in every state, a request whose KKPAY-ID header is not the
\* configured merchant id is answered 401, whatever its signature and body
\* are, without decoding the body and without dispatching a handler, and
\* leaves orders, balances and transactions as they are.
C11_MerchantMismatch ==
    \A req \in ForeignRequests :
        LET out == kkpay_webhook_handler(req)
        IN  /\ out.pc = "done"
            /\ out.status = 401
            /\ ~out.decoded
            /\ out.handler = "none"
            /\ SameStores(out)

C11_Witness ==
    /\ response.status = 401
    /\ response.message = "Invalid merchant ID"
    /\ \E c \in Requests : webhooks[c].pc = "done"
    /\ pending_orders # <<>>

\* authenticated requests with a malformed payload: a body that is not
\* base64, not JSON, not a JSON object, or an amount that is not a number
MalformedRequests ==
    {req \in Incoming :
        /\ Authenticated(req)
        /\ \/ req.body.form # "b64json"
           \/ /\ req.body.form = "b64json"
              /\ req.body.data.amount.t = "str"}

\* C12: in every state, an authenticated request with a malformed payload
\* is answered 400 and leaves orders, balances and transactions as they
\* are.
C12_MalformedPayload ==
    \A req \in MalformedRequests :
        LET out == kkpay_webhook_handler(req)
        IN  /\ out.pc = "done"
            /\ out.status = 400
            /\ SameStores(out)

\* authenticated well-formed callbacks of a category that is neither
\* deposit nor withdraw, naming each order id with each outcome
OtherCategoryCallbacks ==
    {Request(KKPAY_MERCHANT_ID, generate_sign(b, KKPAY_SECRET), b) :
        b \in {Body("b64json", Payload(bt, o, a, st)) :
                  bt \in {"withdrawalPendingConfirm", "refund"},
                  o \in OrderIds, a \in {JNum(1), JAbsent},
                  st \in {"success", "fail", "absent"}}}

OrderData ==
    {TopupOrder(u, a) : u \in Users, a \in WithdrawAmounts \ {0}}
    \cup {WithdrawOrder(u, a) : u \in Users, a \in WithdrawAmounts \ {0}}

\* add_pending_order(order_id, order_data)
create_order(order_id, order_data) ==
    /\ pending_orders' = add_pending_order(pending_orders, order_id, order_data)
    /\ UNCHANGED <<user_accounts, tasks, webhooks, response, effects>>

\* order['txid'] = txid after the gateway accepted the order
order_accepted(order_id) ==
    /\ order_id \in DOMAIN pending_orders
    /\ pending_orders' = SetTxid(pending_orders, order_id)
    /\ UNCHANGED <<user_accounts, tasks, webhooks, response, effects>>

NextOrderStore ==
    \/ \E o \in OrderIds, d \in OrderData : create_order(o, d)
    \/ \E o \in OrderIds : order_accepted(o)

SpecOrderStore == Init /\ [][NextOrderStore]_vars

\* C14: a call of add_pending_order leaves every order record that is in
\* the store as it is (a call with an order id that is in the store does
\* not replace its record).
C14_DuplicateOrderRefused ==
    [][(\E o \in OrderIds, d \in OrderData : create_order(o, d))
       => \A o \in DOMAIN pending_orders :
             /\ o \in DOMAIN pending_orders'
             /\ pending_orders'[o] = pending_orders[o]]_vars

\* ------------------------------------------------------ ledger claims
\* the transactions of every account, each with the account it is in
AllTransactions ==
    UNION {{[user_id |-> u, index |-> i,
             order_id |-> user_accounts[u].transactions[i].order_id] :
                i \in 1..Len(user_accounts[u].transactions)} :
            u \in DOMAIN user_accounts}

RECURSIVE Replay(_)
Replay(txs) ==
    IF txs = <<>> THEN 0
    ELSE LET tx == Head(txs)
         IN  (IF \/ tx.type = "topup" /\ tx.status = "success"
                 \/ tx.type = "withdraw" /\ tx.status \in {"pending", "success"}
              THEN tx.amount ELSE 0)
             + Replay(Tail(txs))

\* C16: the balance of every account is the balance recomputed from its
\* transaction log.
C16_LedgerReconcilable ==
    \A u \in DOMAIN user_accounts :
        user_accounts[u].balance = Replay(user_accounts[u].transactions)

\* the transaction of order o in the log of user u ("none" when there is
\* none)
TxOf(accounts, u, o) ==
    LET i == IF u \in DOMAIN accounts
             THEN FirstTx(accounts[u].transactions, o) ELSE 0
    IN  IF i = 0 THEN [status |-> "none", amount |-> 0]
        ELSE accounts[u].transactions[i]

\* the step is the first callback that finds order o pending, run by this
\* handler with this outcome, for a deposit the gateway accepted
FirstSettlement(o, handler, order_status) ==
    /\ AcceptedTopup(o)
    /\ o \in DOMAIN pending_orders
    /\ effects[o] = <<>>
    /\ effects'[o] # <<>>
    /\ effects'[o][1].handler = handler
    /\ effects'[o][1].status = order_status

\* C17: when handle_deposit_callback handles a callback with outcome fail
\* for a pending deposit order, the order's transaction has status fail
\* afterwards and the owner's balance is what it was.
C17_FailedDeposit ==
    [][\A o \in OrderIds :
        FirstSettlement(o, "deposit", "fail")
        => /\ TxOf(user_accounts', Owner(o), o).status = "fail"
           /\ user_accounts'[Owner(o)].balance = Balance(Owner(o))]_vars

\* C18: when a pending deposit order is settled with outcome success, the
\* owner's balance grows by the amount of the order's own transaction,
\* whatever amount the callback carries.
C18_CreditFromLedger ==
    [][\A o \in OrderIds :
        FirstSettlement(o, "deposit", "success")
        => user_accounts'[Owner(o)].balance =
              Balance(Owner(o)) + TxOf(user_accounts, Owner(o), o).amount]_vars

\* C19: no callback (of the deposit or the withdraw category) with outcome
\* success has changed the balance on behalf of a withdrawal order the
\* gateway accepted, and none with outcome fail has changed it on behalf of
\* a deposit order the gateway accepted.
C19_EffectByOrderKind ==
    \A o \in OrderIds : \A i \in 1..Len(effects[o]) :
        /\ (AcceptedWithdrawal(o) /\ effects[o][i].status = "success")
           => effects[o][i].delta = 0
        /\ (AcceptedTopup(o) /\ effects[o][i].status = "fail")
           => effects[o][i].delta = 0

\* C20: when the handling of a settlement callback for an accepted order o
\* has stopped inside `await send_telegram_message` (after the balance and
\* status updates, before the removal of the order) and the same callback
\* was delivered again and handled to its end, the balance effect of the
\* callback has been applied once in total.
C20_ReplaySafe ==
    \A o \in OrderIds :
        ( /\ AcceptedTopup(o) \/ AcceptedWithdrawal(o)
          /\ \E c \in Requests :
                webhooks[c].pc = "notify" /\ webhooks[c].user_order = o
          /\ o \notin DOMAIN pending_orders
          /\ Len(effects[o]) = 2
          /\ effects[o][1] = effects[o][2] )
        => SumDelta(effects[o]) = effects[o][1].delta

\* ------------------------------------------------------ faults and status
\* authenticated deposit and withdraw callbacks, well-formed or carrying an
\* amount that is not a number
SettlementRequests ==
    {req \in Incoming :
        /\ Authenticated(req)
        /\ req.body.form = "b64json"
        /\ req.body.data.businessType \in {"deposit", "withdraw"}}

\* the balances of all accounts are the same in accounts a and b (an
\* account that does not exist yet has balance 0)
SameBalances(a, b) ==
    \A u \in Users :
        (IF u \in DOMAIN a THEN a[u].balance ELSE 0)
        = (IF u \in DOMAIN b THEN b[u].balance ELSE 0)

\* C21: in every state, when the handling of a deposit or withdraw
\* callback that names a pending order ends with the answer 500, the
\* order is still in the store with the same record, no balance has
\* changed, and for a withdrawal order the accounts (its pending debit
\* transaction included) are as they were.
C21_FaultKeepsOrderPending ==
    \A req \in SettlementRequests :
        LET o == req.body.data.userOrder
            out == kkpay_webhook_handler(req)
        IN  (o \in DOMAIN pending_orders /\ out.pc = "done" /\ out.status = 500)
            => /\ o \in DOMAIN out.pending_orders
               /\ out.pending_orders[o] = pending_orders[o]
               /\ SameBalances(out.user_accounts, user_accounts)
               /\ pending_orders[o].type = "withdraw"
                  => out.user_accounts = user_accounts

C21_Witness ==
    /\ response.status = 500
    /\ response.handler \in {"deposit", "withdraw"}
    /\ response.user_order \in DOMAIN pending_orders

\* C22: a step changes the status of a transaction only from pending, and
\* only to success or to fail.
C22_StatusOneWay ==
    [][\A u \in DOMAIN user_accounts :
        \A i \in 1..Len(user_accounts[u].transactions) :
            LET before == user_accounts[u].transactions[i].status
                after == user_accounts'[u].transactions[i].status
            IN  after # before
                => before = "pending" /\ after \in {"success", "fail"}]_vars

\* ------------------------------------------------------ the signature codec
\* The codec on its own: a sender signs a body with the secret it holds
\* (KKPayAPI.generate_sign) and the receiver verifies it, or the receiver
\* verifies a body with any KKPAY-SIGN value.
Secrets == {KKPAY_SECRET, "other_secret"}

\* values of the KKPAY-SIGN header: signatures of this and of other bodies
\* under each secret, text that is no signature, and no header
SignatureValues ==
    {generate_sign(b, k) : b \in {GoodBody, RawBody}, k \in Secrets}
    \cup {[junk |-> TRUE], None}

\* what one call of verify_signature was given and what it returned
Verified(kind, data, secret, signature) ==
    [pc |-> "verified", kind |-> kind, data |-> data, secret |-> secret,
     signature |-> signature, result |-> verify_signature(data, signature)]

\* sign = self.generate_sign(base64_data) at the sender, then
\* verify_signature(body, signature) at the receiver
signed_request(c, data, secret) ==
    /\ webhooks[c].pc = "idle"
    /\ \A d \in Requests : d < c => webhooks[d].pc # "idle"
    /\ webhooks' = [webhooks EXCEPT ![c] =
          Verified("signed", data, secret, generate_sign(data, secret))]
    /\ UNCHANGED <<user_accounts, pending_orders, tasks, response, effects>>

\* verify_signature(body, signature) with any header value
unsigned_request(c, data, signature) ==
    /\ webhooks[c].pc = "idle"
    /\ \A d \in Requests : d < c => webhooks[d].pc # "idle"
    /\ webhooks' = [webhooks EXCEPT ![c] =
          Verified("header", data, "", signature)]
    /\ UNCHANGED <<user_accounts, pending_orders, tasks, response, effects>>

NextSignature ==
    \/ \E c \in Requests, b \in Bodies, k \in Secrets : signed_request(c, b, k)
    \/ \E c \in Requests, b \in Bodies, sig \in SignatureValues :
          unsigned_request(c, b, sig)

SpecSignature == Init /\ [][NextSignature]_vars

\* C23: every call of verify_signature returns a boolean; it returns true
\* for the signature generate_sign made of the same body with the
\* receiver's secret, and false for every other value of the signature,
\* the absent one included.
C23_SignatureRoundTrip ==
    \A c \in Requests :
        webhooks[c].pc = "verified"
        => /\ webhooks[c].result \in BOOLEAN
           /\ (webhooks[c].kind = "signed" /\ webhooks[c].secret = KKPAY_SECRET)
              => webhooks[c].result
           /\ webhooks[c].result
              <=> webhooks[c].signature
                    = generate_sign(webhooks[c].data, KKPAY_SECRET)

C23_Witness ==
    \E c \in Requests : \E d \in Requests :
        /\ webhooks[c].pc = "verified" /\ webhooks[d].pc = "verified"
        /\ webhooks[c].kind = "signed" /\ webhooks[c].result
        /\ webhooks[d].signature = None /\ ~webhooks[d].result

\* ------------------------------------------------------ accounts and logs
\* C24: in every state, get_user_account for a user without an account
\* adds an account with balance 0 and an empty transaction log, for a user
\* with an account it changes nothing, and in both cases the accounts of
\* all other users are as they were.
C24_LazyAccountCreation ==
    \A u \in Users :
        LET after == get_user_account(user_accounts, u)
        IN  /\ DOMAIN after = DOMAIN user_accounts \cup {u}
            /\ u \notin DOMAIN user_accounts
               => after[u] = [balance |-> 0, transactions |-> <<>>]
            /\ u \in DOMAIN user_accounts => after[u] = user_accounts[u]
            /\ \A v \in DOMAIN user_accounts \ {u} : after[v] = user_accounts[v]
            /\ get_user_account(after, u) = after

C24_Witness ==
    \E u \in DOMAIN user_accounts : \E v \in DOMAIN user_accounts :
        /\ user_accounts[u] = [balance |-> 0, transactions |-> <<>>]
        /\ user_accounts[v].balance # 0
        /\ user_accounts[v].transactions # <<>>

\* C25: across every step, every transaction log keeps its entries in
\* their places (new entries come after them), and an entry that was in
\* the log differs from what it was in its status at most.
C25_LogAppendOnly ==
    [][\A u \in DOMAIN user_accounts :
        LET before == user_accounts[u].transactions
            after == user_accounts'[u].transactions
        IN  /\ u \in DOMAIN user_accounts'
            /\ Len(after) >= Len(before)
            /\ \A i \in 1..Len(before) :
                  after[i] = [before[i] EXCEPT !.status = after[i].status]]_vars

C25_Witness ==
    \E u \in DOMAIN user_accounts :
        /\ Len(user_accounts[u].transactions) >= 2
        /\ user_accounts[u].transactions[1].status # "pending"

\* the account of user u, or that the user has none
Account(accounts, u) ==
    IF u \in DOMAIN accounts THEN accounts[u]
    ELSE [balance |-> 0, transactions |-> <<>>, absent |-> TRUE]

\* C26: a step of a callback request changes the account of no user but
\* the owner of an order the callback found pending, and a step of an
\* order-creation conversation changes the account of no user but the one
\* of the conversation.
C26_CrossUserIsolation ==
    [][\A u \in Users :
        Account(user_accounts', u) # Account(user_accounts, u)
        => /\ (\E c \in Requests : webhooks'[c] # webhooks[c])
              => \E o \in DOMAIN pending_orders :
                    /\ effects'[o] # effects[o]
                    /\ pending_orders[o].user_id = u
           /\ \A t \in Tasks :
                 tasks'[t] # tasks[t] => tasks'[t].user_id = u]_vars

C26_Witness ==
    \E u \in DOMAIN user_accounts : \E v \in DOMAIN user_accounts :
        /\ u # v
        /\ user_accounts[u].balance # 0
        /\ user_accounts[u].transactions # <<>>
        /\ user_accounts[v].transactions # <<>>

\* C27: every transaction with status pending is the transaction of an
\* order that is in the pending order store.
C27_NoOrphanedPending ==
    \A u \in DOMAIN user_accounts :
        \A i \in 1..Len(user_accounts[u].transactions) :
            user_accounts[u].transactions[i].status = "pending"
            => user_accounts[u].transactions[i].order_id
                  \in DOMAIN pending_orders

\* ------------------------------------------------------------- liveness
\* send_telegram_message returns: it catches every exception of the
\* request it makes, and the request has the client's total timeout.
Fairness == \A c \in Requests : WF_vars(notify_return(c))

SpecFair == Init /\ [][Next]_vars /\ Fairness

\* C28: once a deposit or withdraw callback has found order o pending, the
\* order is eventually removed from the pending order store.
C28_SettlementCompletes ==
    \A o \in OrderIds :
        (effects[o] # <<>>) ~> (o \notin DOMAIN pending_orders)

====
